---- MODULE Spec2Model ----
(***************************************************************************)
(* Model of the timed message sequencer of the Z1-Gray bot:                *)
(* send_delayed_sequence (src/handlers/step_1.py, lines 45-77) and the     *)
(* TimedMessage values it consumes (lines 38-42); and of the unified flow  *)
(* built on it (src/utils/helpers.py): the /start handler                  *)
(* start_z1_gray_unified_flow and the unlock button callback               *)
(* handle_unlock_repair_callback_unified, which share context.user_data.   *)
(*                                                                         *)
(* Durations are integers counting tenths of a second, so the literal 0.2  *)
(* of the source is 2 and 1.0 is 10.  A call is a coroutine: it runs       *)
(* atomically from one await to the next, and the host may cancel it only  *)
(* while it is suspended in an await.                                      *)
(***************************************************************************)
EXTENDS Integers, Sequences, FiniteSets, TLC

VARIABLES
    chat_id,        \* chat_id[c]: the chat_id argument of call c
    sequence,       \* sequence[c]: the sequence argument of call c
    initial_delay,  \* initial_delay[c]: the initial_delay argument of call c
    pc,             \* pc[c]: where call c is suspended, or how it ended
    idx,            \* idx[c]: 1-based position of the loop variable `item`
    exc,            \* exc[c]: the exception that left call c, or "none"
    ret,            \* ret[c]: the value call c returned
    trace,          \* trace[c]: every await of call c, in program order
    inbox,          \* inbox[chat]: what the bot delivered to the chat
    targetValid,    \* targetValid[chat]: FALSE when the chat rejects every request
    user_data,      \* context.user_data of the one user: the per-user session state
    handlers,       \* handlers[h]: the h-th update of the user and the coroutine handling it
    buttons,        \* ids of the delivered messages that carry the unlock button
    edited,         \* ids of the button messages whose keyboard an edit removed
    observed        \* the handlers whose update text and attempted sends are recorded

\* The state of the sequencer calls, and the state of the user's session.
seqvars == <<chat_id, sequence, initial_delay, pc, idx, exc, ret, trace, inbox, targetValid>>

flowvars == <<user_data, handlers, buttons, edited, observed>>

vars == <<seqvars, flowvars>>

(***************************************************************************)
(* Bounds of the model.                                                    *)
(***************************************************************************)
MaxLen == 2          \* longest input sequence of the single-call specification
PairLen == 2         \* length of the input sequences of the two-call specification
MaxHandlers == 2     \* updates of the one user that the flow specification handles

Calls == {1, 2}
Chats == {101, 102}
Delays == {-5, 0, 2, 10}
InitialDelays == {-1, 0, 8}
PairDelays == {0, 10}
PairInitialDelays == {8}

\* The texts of a script: its lines all different, or all alike.  The code
\* never reads a text, so only the equality of two lines can matter.
Lines == <<"A", "B", "C", "D">>

Texts == {Lines[i] : i \in DOMAIN Lines}

LineText(kind, i) == IF kind = "same" THEN Lines[1] ELSE Lines[i]

\* `delay_before_send > 0.2` (line 59), in tenths of a second.
TypingThreshold == 2

\* The updates of the user, in the order in which their handlers start.
Handlers == 1..MaxHandlers

\* A key that user_data does not hold: `get` and `pop(key, None)` yield None.
NoValue == 0

\* The ids _generate_script_id draws, and the message id Telegram assigns to
\* the button message, are fresh for every run: run h gets the value h, and
\* a run that ended before the first update of the model gets EarlierRun.
EarlierRun == MaxHandlers + 1

(***************************************************************************)
(* TimedMessage (dataclass, lines 38-42) and the argument lists.           *)
(***************************************************************************)
TimedMessage == [text : Texts, delay_before : Delays, typing : BOOLEAN]

\* The sequences of n TimedMessage values whose texts are the lines of a script.
Scripts(n, delays) ==
    {[i \in 1..n |-> [text |-> LineText(kind, i), delay_before |-> ds[i], typing |-> ts[i]]] :
        kind \in {"distinct", "same"}, ds \in [1..n -> delays], ts \in [1..n -> BOOLEAN]}

\* The sequence of the concrete scenario of spec section 8:
\* [ {"A", 0, false}, {"B", 1.0, true}, {"C", 0.1, true} ]
Scenario ==
    << [text |-> "A", delay_before |-> 0, typing |-> FALSE],
       [text |-> "B", delay_before |-> 10, typing |-> TRUE],
       [text |-> "C", delay_before |-> 1, typing |-> TRUE] >>

\* The sequences of PairLen messages that all have the same pacing.
PairScripts ==
    {[i \in 1..PairLen |-> [text |-> Lines[i], delay_before |-> d, typing |-> TRUE]] :
        d \in PairDelays}

(***************************************************************************)
(* What a call of the bot can do when awaited.  A chat that is invalid     *)
(* (blocked, deleted) rejects every request with a TelegramError.          *)
(***************************************************************************)
BotOutcomes(chat) ==
    IF targetValid[chat] THEN {"ok", "TelegramError", "Exception"}
    ELSE {"TelegramError"}

\* The entry a successful bot call leaves in the chat.
TypingEntry == [kind |-> "typing", text |-> "", parse_mode |-> "", reply_markup |-> "none"]

\* lines 69-73: send_message(chat_id=..., text=..., parse_mode=ParseMode.HTML)
MessageEntry(text) ==
    [kind |-> "message", text |-> text, parse_mode |-> "HTML", reply_markup |-> "none"]

Deliver(chat, r, entry) ==
    IF r = "ok" THEN [inbox EXCEPT ![chat] = Append(@, entry)] ELSE inbox

(***************************************************************************)
(* The awaits of one call, as trace events.  item 0 is the initial delay.  *)
(***************************************************************************)
Event(op, item, text, dur) ==
    [op |-> op, item |-> item, text |-> text, dur |-> dur, res |-> "pending"]

\* The last event of call c completes with result r.
Complete(c, r) == [trace[c] EXCEPT ![Len(trace[c])].res = r]

(***************************************************************************)
(* The conditions and handlers of the loop body (lines 54-77).             *)
(***************************************************************************)
\* Mutant: the threshold compared with >= instead of >.
ShouldSignal_AtThreshold(item) == item.typing /\ item.delay_before >= TypingThreshold

\* line 59: if show_typing and delay_before_send > 0.2
ShouldSignal(item) == item.typing /\ item.delay_before > TypingThreshold

\* Mutant: the delay compared with != 0 instead of > 0.
ShouldSleep_NonZero(item) == item.delay_before # 0

\* line 65: if delay_before_send > 0
ShouldSleep(item) == item.delay_before > 0

\* Mutant: the initial delay compared with >= 0 instead of > 0.
ShouldSleepInitially_NonNegative(d) == d >= 0

\* line 51: if initial_delay > 0
ShouldSleepInitially(d) == d > 0

\* Mutant: the chat action awaited outside any try block.
ChatActionHandler_NoTry(e) == "propagate"

\* lines 60-63: try: await bot.send_chat_action(...) except TelegramError
ChatActionHandler(e) ==
    IF e = "TelegramError" THEN "warning" ELSE "propagate"

\* Mutant: the `except Exception` clause missing.
SendHandler_OnlyTelegramError(e) ==
    IF e = "TelegramError" THEN "warning" ELSE "propagate"

\* Mutant: a bare `except:` in place of `except Exception`, which also
\* catches CancelledError.
SendHandler_BareExcept(e) ==
    IF e = "TelegramError" THEN "warning" ELSE "error"

\* lines 68-77: try: await bot.send_message(...)
\*              except TelegramError ... except Exception ...
\* asyncio.CancelledError derives from BaseException, not from Exception.
SendHandler(e) ==
    CASE e = "TelegramError" -> "warning"
      [] e = "Exception" -> "error"
      [] OTHER -> "propagate"

\* Mutant: the loop steps over every second item.
NextIndex_SkipsOne(i) == i + 2

\* line 54: for item in sequence
NextIndex(i) == i + 1

\* Mutant: a chat id written into the code instead of the argument.
Target_HardCoded(c) == 101

\* Mutant: the chat id kept in one place shared by all calls.
Target_Shared(c) == chat_id[1]

\* lines 61 and 70: chat_id=chat_id
Target(c) == chat_id[c]

(***************************************************************************)
(* Control flow between awaits: each operator gives the next place where   *)
(* the call suspends (or returns) and the event of the await it starts.    *)
(***************************************************************************)
Goto(p, i, evs) == [pc |-> p, idx |-> i, evs |-> evs]

\* Mutant: the text read from a variable that holds the last item.
ToSend_LastText(s, i) == Goto("send", i, <<Event("send", i, s[Len(s)].text, 0)>>)

\* lines 68-73: the send of item i starts
ToSend(s, i) == Goto("send", i, <<Event("send", i, s[i].text, 0)>>)

\* Mutant: the sleep started but not awaited, the send starts at once.
AfterChatAction_SleepNotAwaited(s, i) ==
    IF s[i].delay_before > 0
    THEN Goto("send", i, <<Event("sleep", i, "", s[i].delay_before),
                           Event("send", i, s[i].text, 0)>>)
    ELSE ToSend(s, i)

\* lines 65-66, then the send
AfterChatAction(s, i) ==
    IF ShouldSleep(s[i])
    THEN Goto("sleep", i, <<Event("sleep", i, "", s[i].delay_before)>>)
    ELSE ToSend(s, i)

\* Mutant: `for item in sequence or [TimedMessage("A")]`, a default line
\* sent when the sequence is empty.
EnterItem_DefaultLine(s, i) ==
    LET t == IF s = <<>> THEN <<[text |-> "A", delay_before |-> 0, typing |-> FALSE]>> ELSE s
    IN  IF i > Len(t) THEN Goto("returned", i, <<>>)
        ELSE IF ShouldSignal(t[i])
             THEN Goto("chat_action", i, <<Event("chat_action", i, "", 0)>>)
             ELSE ToSend(t, i)

\* lines 54-61: the loop head with item i, or the end of the loop
EnterItem(s, i) ==
    IF i > Len(s) THEN Goto("returned", i, <<>>)
    ELSE IF ShouldSignal(s[i])
         THEN Goto("chat_action", i, <<Event("chat_action", i, "", 0)>>)
         ELSE AfterChatAction(s, i)

\* Mutant: the handler of TelegramError returns from the call.
AfterSend_ReturnsOnTelegramError(s, i, r) ==
    IF r = "TelegramError" THEN Goto("returned", i, <<>>) ELSE EnterItem(s, NextIndex(i))

\* Mutant: a failed send is tried again.
AfterSend_RetriesFailedSend(s, i, r) ==
    IF r \in {"TelegramError", "Exception"} THEN ToSend(s, i) ELSE EnterItem(s, NextIndex(i))

\* lines 74-77, then line 54: whatever the handled outcome r of the send of
\* item i, the loop goes on with the next item
AfterSend(s, i, r) == EnterItem(s, NextIndex(i))

\* Call c goes on to `next`, its pending event having completed as `done`.
Resume(c, done, next) ==
    /\ pc' = [pc EXCEPT ![c] = next.pc]
    /\ idx' = [idx EXCEPT ![c] = next.idx]
    /\ trace' = [trace EXCEPT ![c] = done \o next.evs]
    /\ ret' = [ret EXCEPT ![c] = IF next.pc = "returned"
                                 THEN [kind |-> "None", items |-> <<>>] ELSE @]
    /\ exc' = exc

\* Exception e leaves call c, its pending event having completed as `done`.
Raise(c, done, e) ==
    /\ pc' = [pc EXCEPT ![c] = "raised"]
    /\ exc' = [exc EXCEPT ![c] = e]
    /\ trace' = [trace EXCEPT ![c] = done]
    /\ UNCHANGED <<idx, ret>>

(***************************************************************************)
(* Actions.                                                                *)
(***************************************************************************)
\* lines 45-53: the call starts and runs to its first await
Begin(c) ==
    /\ pc[c] = "start"
    /\ IF ShouldSleepInitially(initial_delay[c])
       THEN Resume(c, trace[c], Goto("initial_sleep", 0,
                                     <<Event("sleep", 0, "", initial_delay[c])>>))
       ELSE Resume(c, trace[c], EnterItem(sequence[c], 1))
    /\ UNCHANGED <<chat_id, sequence, initial_delay, inbox, targetValid, flowvars>>

\* line 52: await asyncio.sleep(initial_delay) returns
InitialSleepDone(c) ==
    /\ pc[c] = "initial_sleep"
    /\ Resume(c, Complete(c, "ok"), EnterItem(sequence[c], 1))
    /\ UNCHANGED <<chat_id, sequence, initial_delay, inbox, targetValid, flowvars>>

\* lines 60-63: await bot.send_chat_action(...) returns or raises
ChatActionDone(c) ==
    /\ pc[c] = "chat_action"
    /\ \E r \in BotOutcomes(Target(c)) :
        /\ inbox' = Deliver(Target(c), r, TypingEntry)
        /\ IF r = "ok" \/ ChatActionHandler(r) # "propagate"
           THEN Resume(c, Complete(c, r), AfterChatAction(sequence[c], idx[c]))
           ELSE Raise(c, Complete(c, r), r)
    /\ UNCHANGED <<chat_id, sequence, initial_delay, targetValid, flowvars>>

\* line 66: await asyncio.sleep(delay_before_send) returns
SleepDone(c) ==
    /\ pc[c] = "sleep"
    /\ Resume(c, Complete(c, "ok"), ToSend(sequence[c], idx[c]))
    /\ UNCHANGED <<chat_id, sequence, initial_delay, inbox, targetValid, flowvars>>

\* lines 68-77: await bot.send_message(...) returns or raises
SendDone(c) ==
    /\ pc[c] = "send"
    /\ \E r \in BotOutcomes(Target(c)) :
        /\ inbox' = Deliver(Target(c), r, MessageEntry(trace[c][Len(trace[c])].text))
        /\ IF r = "ok" \/ SendHandler(r) # "propagate"
           THEN Resume(c, Complete(c, r), AfterSend(sequence[c], idx[c], r))
           ELSE Raise(c, Complete(c, r), r)
    /\ UNCHANGED <<chat_id, sequence, initial_delay, targetValid, flowvars>>

Suspended(c) == pc[c] \in {"initial_sleep", "chat_action", "sleep", "send"}

\* The host cancels the task: CancelledError is raised at the pending await and
\* passes through the handler of the try block the await is in, if any.
Cancel(c) ==
    /\ Suspended(c)
    /\ LET caught == CASE pc[c] = "chat_action" -> ChatActionHandler("CancelledError") # "propagate"
                       [] pc[c] = "send" -> SendHandler("CancelledError") # "propagate"
                       [] OTHER -> FALSE
           next == IF pc[c] = "chat_action"
                   THEN AfterChatAction(sequence[c], idx[c])
                   ELSE AfterSend(sequence[c], idx[c], "CancelledError")
       IN  IF caught
           THEN Resume(c, Complete(c, "CancelledError"), next)
           ELSE Raise(c, Complete(c, "CancelledError"), "CancelledError")
    /\ UNCHANGED <<chat_id, sequence, initial_delay, inbox, targetValid, flowvars>>

Step(c) ==
    \/ Begin(c)
    \/ InitialSleepDone(c)
    \/ ChatActionDone(c)
    \/ SleepDone(c)
    \/ SendDone(c)
    \/ Cancel(c)

(***************************************************************************)
(* Specifications.  Spec: one call with any arguments.  SpecPair: two      *)
(* calls for different chats whose steps interleave.                       *)
(***************************************************************************)
InitCommon ==
    /\ idx = [c \in Calls |-> 0]
    /\ exc = [c \in Calls |-> "none"]
    /\ ret = [c \in Calls |-> [kind |-> "unset", items |-> <<>>]]
    /\ trace = [c \in Calls |-> <<>>]
    /\ inbox = [ch \in Chats |-> <<>>]
    /\ targetValid \in [Chats -> BOOLEAN]

\* No handler has written the user's session yet.
FreshUserData ==
    [state |-> "unset", user_id |-> "unset", user_secure_id_formatted |-> "unset",
     slot_id |-> NoValue, access_key |-> NoValue, z1_payment_message_id |-> NoValue]

\* An update that has not arrived yet.
IdleHandler ==
    [kind |-> "none", pc |-> "idle", i |-> 0, msg |-> NoValue, log |-> <<>>, lost |-> FALSE]

FlowIdle ==
    /\ user_data = FreshUserData
    /\ handlers = [h \in Handlers |-> IdleHandler]
    /\ buttons = {}
    /\ edited = {}
    /\ observed = {}

Init ==
    /\ InitCommon
    /\ FlowIdle
    /\ pc = [c \in Calls |-> IF c = 1 THEN "start" ELSE "absent"]
    /\ \E ch \in Chats : chat_id = [c \in Calls |-> ch]
    /\ \A ch \in Chats : ch # chat_id[1] => targetValid[ch]
    /\ \E s \in UNION {Scripts(n, Delays) : n \in 0..MaxLen} \cup {Scenario} :
          sequence = [c \in Calls |-> IF c = 1 THEN s ELSE <<>>]
    /\ \E d \in InitialDelays : initial_delay = [c \in Calls |-> IF c = 1 THEN d ELSE 0]

Next == \E c \in Calls : Step(c)

Spec == Init /\ [][Next]_vars

InitPair ==
    /\ InitCommon
    /\ FlowIdle
    /\ pc = [c \in Calls |-> "start"]
    /\ chat_id = [c \in Calls |-> IF c = 1 THEN 101 ELSE 102]
    /\ targetValid[chat_id[2]]
    /\ sequence \in [Calls -> PairScripts]
    /\ \E d \in PairInitialDelays : initial_delay = [c \in Calls |-> d]

SpecPair == InitPair /\ [][Next]_vars

\* One call that the host never cancels and whose awaits all complete.
StepNoCancel(c) ==
    \/ Begin(c)
    \/ InitialSleepDone(c)
    \/ ChatActionDone(c)
    \/ SleepDone(c)
    \/ SendDone(c)

NextNoCancel == \E c \in Calls : StepNoCancel(c)

SpecNoCancel == Init /\ [][NextNoCancel]_vars /\ WF_vars(NextNoCancel)

(***************************************************************************)
(* The unified flow (src/utils/helpers.py).  The handlers of one user are  *)
(* coroutines on one event loop: a handler runs atomically from one await  *)
(* to the next, and the handlers of the user's other updates may run while *)
(* it is suspended.  All of them read and write the same user_data.        *)
(*                                                                         *)
(* A handler is suspended inside one script message (its presence signal,  *)
(* its sleep, its send) or inside one call of send_delayed_sequence, and   *)
(* the step that ends the suspension decides the outcomes of the bot calls *)
(* made meanwhile; neither touches user_data.  Handlers are not cancelled. *)
(* Of a handler that ended, only the way it ended is kept.                 *)
(***************************************************************************)
\* lines 22-25
FLOW_ACTIVE_UNIFIED == "z1_flow_unified_active"

FLOW_PAYMENT_BUTTON_SHOWN == "z1_flow_payment_button_shown"

FLOW_PROCESSING_PAYMENT == "z1_flow_processing_payment"

FLOW_PAYMENT_COMPLETE == "z1_flow_payment_complete"

\* lines 56-58
active_states_for_reset ==
    {FLOW_ACTIVE_UNIFIED, FLOW_PAYMENT_BUTTON_SHOWN, FLOW_PROCESSING_PAYMENT}

\* update.message.text of an update routed to the /start handler.
StartTexts == {"/start", "/start now"}

\* The chat of the user accepts requests; a single request may still fail
\* with a TelegramError or with another exception.
UserChat == 101

UserOutcomes == {"ok", "TelegramError", "Exception"}

\* TimedMessage(text=..., delay_before=...): typing keeps its default, True.
Scripted(text, delay) == [text |-> text, delay_before |-> delay, typing |-> TRUE]

\* lines 73-77, 98-102, 111-113: the scripts, each text named by its log code.
messages_step_a == <<Scripted("ALERT_001", 5), Scripted("SCAN_002", 30), Scripted("ID_003", 30)>>

messages_step_b == <<Scripted("DIAG_004", 5), Scripted("ACTION_005", 40), Scripted("SLOT_006", 40)>>

messages_step_c_pre_button == <<Scripted("KEY_007", 5)>>

\* The outcomes of the two bot calls of each item of a sequence.
ItemOutcomes(s) ==
    [1..Len(s) -> [signal : UserOutcomes, send : UserOutcomes]]

\* send_delayed_sequence run from item i to its end under the outcomes oc:
\* whether an exception left it, the texts it attempted to send, and whether
\* one of them was not delivered.
RECURSIVE SequenceFrom(_, _, _)
SequenceFrom(s, i, oc) ==
    IF i > Len(s) THEN [raised |-> FALSE, log |-> <<>>, lost |-> FALSE]
    ELSE IF /\ ShouldSignal(s[i])
            /\ oc[i].signal # "ok"
            /\ ChatActionHandler(oc[i].signal) = "propagate"
         THEN [raised |-> TRUE, log |-> <<>>, lost |-> FALSE]
    ELSE IF oc[i].send # "ok" /\ SendHandler(oc[i].send) = "propagate"
         THEN [raised |-> TRUE, log |-> <<s[i].text>>, lost |-> TRUE]
    ELSE LET rest == SequenceFrom(s, NextIndex(i), oc)
         IN  [raised |-> rest.raised,
              log |-> <<s[i].text>> \o rest.log,
              lost |-> rest.lost \/ oc[i].send # "ok"]

\* What the two calls of send_delayed_sequence made by the flow can do.
StepBRuns == {SequenceFrom(messages_step_b, 1, oc) : oc \in ItemOutcomes(messages_step_b)}

StepCRuns ==
    {SequenceFrom(messages_step_c_pre_button, 1, oc) :
        oc \in ItemOutcomes(messages_step_c_pre_button)}

\* Handler h suspended at its next await p, or ended the way p names, after
\* it attempted the sends `sent`; `lost` tells that one of them failed.
Advance(h, p, sent, lost) ==
    IF h \in observed
    THEN [handlers[h] EXCEPT !.pc = p, !.log = @ \o sent, !.lost = @ \/ lost]
    ELSE [handlers[h] EXCEPT !.pc = p]

\* Slots are taken in order: update h arrives after update h - 1.
Arrives(h) ==
    /\ handlers[h].kind = "none"
    /\ \A g \in Handlers : g < h => handlers[g].kind # "none"

At(h, kind, p) == handlers[h].kind = kind /\ handlers[h].pc = p

\* How a handler ends: by returning (the first six) or with an exception.
Ended ==
    {"shown", "failed", "rejected", "complete", "reverted", "not_modified",
     "raised", "reject_raised"}

\* lines 62-63
PopFlowKeys(ud) ==
    [ud EXCEPT !.state = "unset", !.user_secure_id_formatted = "unset",
               !.slot_id = NoValue, !.access_key = NoValue,
               !.z1_payment_message_id = NoValue]

\* lines 66-71
EnterFlow(ud) ==
    [ud EXCEPT !.state = FLOW_ACTIVE_UNIFIED, !.user_secure_id_formatted = "USR"]

\* line 59
ShouldReset(text, state) == text = "/start" /\ state \in active_states_for_reset

\* lines 36-84: /start arrives and the handler runs to its first await, the
\* reset notice (line 61) or the first script message.
StartBegin(h) ==
    /\ Arrives(h)
    /\ \E text \in StartTexts :
          LET begun == [IdleHandler EXCEPT !.kind = "start",
                                           !.log = IF h \in observed THEN <<text>> ELSE <<>>]
              known == [user_data EXCEPT !.user_id = "set"]
          IN  IF ShouldReset(text, user_data.state)
              THEN /\ handlers' = [handlers EXCEPT ![h] = [begun EXCEPT !.pc = "reset_reply"]]
                   /\ user_data' = known
              ELSE /\ handlers' = [handlers EXCEPT ![h] = [begun EXCEPT !.pc = "step_a", !.i = 1]]
                   /\ user_data' = EnterFlow(known)
    /\ UNCHANGED <<buttons, edited, observed, seqvars>>

\* lines 61-84: the reset notice is awaited outside the try block.
StartResetReplyDone(h) ==
    /\ At(h, "start", "reset_reply")
    /\ \E r \in UserOutcomes :
          IF r = "ok"
          THEN /\ handlers' = [handlers EXCEPT
                                 ![h] = [Advance(h, "step_a", <<"RESET">>, FALSE) EXCEPT !.i = 1]]
               /\ user_data' = EnterFlow(PopFlowKeys(user_data))
          ELSE /\ handlers' = [handlers EXCEPT ![h] = Advance(h, "raised", <<"RESET">>, TRUE)]
               /\ user_data' = user_data
    /\ UNCHANGED <<buttons, edited, observed, seqvars>>

\* Mutant: a failed Step A send is logged and the loop continues, as in
\* send_delayed_sequence.
StartStepADone_ContinuesAfterFailedSend(h) ==
    /\ At(h, "start", "step_a")
    /\ LET i == handlers[h].i
           item == messages_step_a[i]
       IN  \E ra \in UserOutcomes, rs \in UserOutcomes :
              handlers' = [handlers EXCEPT ![h] =
                  IF ShouldSignal(item) /\ ra # "ok"
                  THEN Advance(h, "error_reply", <<>>, FALSE)
                  ELSE IF i < Len(messages_step_a)
                  THEN [Advance(h, "step_a", <<item.text>>, rs # "ok") EXCEPT !.i = NextIndex(i)]
                  ELSE Advance(h, "pause_a", <<item.text>>, rs # "ok")]
    /\ UNCHANGED <<user_data, buttons, edited, observed, seqvars>>

\* lines 82-92: one iteration of the Step A loop; any exception leaves the
\* try block for the handlers of lines 139-144.
StartStepADone(h) ==
    /\ At(h, "start", "step_a")
    /\ LET i == handlers[h].i
           item == messages_step_a[i]
       IN  \E ra \in UserOutcomes, rs \in UserOutcomes :
              handlers' = [handlers EXCEPT ![h] =
                  IF ShouldSignal(item) /\ ra # "ok"
                  THEN Advance(h, "error_reply", <<>>, FALSE)
                  ELSE IF rs # "ok"
                  THEN Advance(h, "error_reply", <<item.text>>, TRUE)
                  ELSE IF i < Len(messages_step_a)
                  THEN [Advance(h, "step_a", <<item.text>>, FALSE) EXCEPT !.i = NextIndex(i)]
                  ELSE Advance(h, "pause_a", <<item.text>>, FALSE)]
    /\ UNCHANGED <<user_data, buttons, edited, observed, seqvars>>

\* lines 92-103: the pause ends, slot_id is stored and Step B is called.
StartPauseADone(h) ==
    /\ At(h, "start", "pause_a")
    /\ handlers' = [handlers EXCEPT ![h] = Advance(h, "step_b", <<>>, FALSE)]
    /\ user_data' = [user_data EXCEPT !.slot_id = h]
    /\ UNCHANGED <<buttons, edited, observed, seqvars>>

\* lines 103-105: send_delayed_sequence(messages_step_b, initial_delay=0.2)
StartStepBDone(h) ==
    /\ At(h, "start", "step_b")
    /\ \E run \in StepBRuns :
          handlers' = [handlers EXCEPT ![h] =
              Advance(h, IF run.raised THEN "error_reply" ELSE "pause_b", run.log, run.lost)]
    /\ UNCHANGED <<user_data, buttons, edited, observed, seqvars>>

\* lines 105-123: the pause ends, access_key is stored and Step C is called.
StartPauseBDone(h) ==
    /\ At(h, "start", "pause_b")
    /\ handlers' = [handlers EXCEPT ![h] = Advance(h, "step_c", <<>>, FALSE)]
    /\ user_data' = [user_data EXCEPT !.access_key = h]
    /\ UNCHANGED <<buttons, edited, observed, seqvars>>

\* lines 122-126: send_delayed_sequence(messages_step_c_pre_button, 0.2)
StartStepCDone(h) ==
    /\ At(h, "start", "step_c")
    /\ \E run \in StepCRuns :
          handlers' = [handlers EXCEPT ![h] =
              Advance(h, IF run.raised THEN "error_reply" ELSE "pay_action",
                      run.log, run.lost)]
    /\ UNCHANGED <<user_data, buttons, edited, observed, seqvars>>

\* lines 126-127: if await send_chat_action(...): await asyncio.sleep(1.0)
StartPayActionDone(h) ==
    /\ At(h, "start", "pay_action")
    /\ \E r \in UserOutcomes :
          handlers' = [handlers EXCEPT ![h] =
              Advance(h, IF r = "ok" THEN "pay_sleep" ELSE "error_reply", <<>>, FALSE)]
    /\ UNCHANGED <<user_data, buttons, edited, observed, seqvars>>

\* lines 127-129
StartPaySleepDone(h) ==
    /\ At(h, "start", "pay_sleep")
    /\ handlers' = [handlers EXCEPT ![h] = Advance(h, "pay_send", <<>>, FALSE)]
    /\ UNCHANGED <<user_data, buttons, edited, observed, seqvars>>

\* Mutant: the two writes of lines 135-136 made before the send is awaited.
StartPaySendDone_WritesBeforeSend(h) ==
    /\ At(h, "start", "pay_send")
    /\ \E r \in UserOutcomes :
          /\ handlers' = [handlers EXCEPT ![h] =
                 Advance(h, IF r = "ok" THEN "shown" ELSE "error_reply", <<"TIMER_008">>, r # "ok")]
          /\ buttons' = IF r = "ok" THEN buttons \cup {h} ELSE buttons
          /\ user_data' = [user_data EXCEPT !.z1_payment_message_id = h,
                                            !.state = FLOW_PAYMENT_BUTTON_SHOWN]
    /\ UNCHANGED <<edited, observed, seqvars>>

\* lines 129-137: the message with the unlock button, then the two writes.
StartPaySendDone(h) ==
    /\ At(h, "start", "pay_send")
    /\ \E r \in UserOutcomes :
          IF r = "ok"
          THEN /\ handlers' = [handlers EXCEPT ![h] = Advance(h, "shown", <<"TIMER_008">>, FALSE)]
               /\ buttons' = buttons \cup {h}
               /\ user_data' = [user_data EXCEPT !.z1_payment_message_id = h,
                                                 !.state = FLOW_PAYMENT_BUTTON_SHOWN]
          ELSE /\ handlers' = [handlers EXCEPT
                                 ![h] = Advance(h, "error_reply", <<"TIMER_008">>, TRUE)]
               /\ UNCHANGED <<buttons, user_data>>
    /\ UNCHANGED <<edited, observed, seqvars>>

\* Mutant: an exception of the error reply is not caught.
StartErrorReplyDone_Propagates(h) ==
    /\ At(h, "start", "error_reply")
    /\ \E r \in UserOutcomes :
          handlers' = [handlers EXCEPT ![h] =
              Advance(h, IF r = "ok" THEN "failed" ELSE "raised", <<"SYSTEM_ERROR">>, r # "ok")]
    /\ UNCHANGED <<user_data, buttons, edited, observed, seqvars>>

\* lines 139-144: send_system_error_reply swallows every exception
\* (src/handlers/step_1.py, lines 87-100).
StartErrorReplyDone(h) ==
    /\ At(h, "start", "error_reply")
    /\ \E r \in UserOutcomes :
          handlers' = [handlers EXCEPT ![h] = Advance(h, "failed", <<"SYSTEM_ERROR">>, r # "ok")]
    /\ UNCHANGED <<user_data, buttons, edited, observed, seqvars>>

start_z1_gray_unified_flow(h) ==
    \/ StartBegin(h)
    \/ StartResetReplyDone(h)
    \/ StartStepADone(h)
    \/ StartPauseADone(h)
    \/ StartStepBDone(h)
    \/ StartPauseBDone(h)
    \/ StartStepCDone(h)
    \/ StartPayActionDone(h)
    \/ StartPaySleepDone(h)
    \/ StartPaySendDone(h)
    \/ StartErrorReplyDone(h)

\* Mutant: the guard also lets a click through while one is being processed.
PassesGuard_AlsoProcessing(state) ==
    state \in {FLOW_PAYMENT_BUTTON_SHOWN, FLOW_PROCESSING_PAYMENT}

\* Mutant: the guard turns away only a completed payment.
PassesGuard_UnlessComplete(state) == state # FLOW_PAYMENT_COMPLETE

\* line 166: the negation of the condition of the early return
PassesGuard(state) == state = FLOW_PAYMENT_BUTTON_SHOWN

\* What awaiting edit_message_text can do: Telegram refuses an edit that
\* changes nothing, which is the case when an earlier edit already appended
\* the processing notice to the same text and removed the keyboard.
EditOutcomes(m) ==
    IF m \in edited THEN {"NotModified", "TelegramError", "Exception"}
    ELSE UserOutcomes

\* lines 209-222: where an exception raised inside the try block leads.
\* "NotModified" is the TelegramError whose text holds "message is not modified".
UnlockExcept(e) ==
    IF e = "NotModified" THEN "not_modified" ELSE "error_send"

\* The user presses the button of message m, which still shows it; the
\* update waits for its handler to run.
Click(h) ==
    /\ Arrives(h)
    /\ \E m \in buttons \ edited :
          handlers' = [handlers EXCEPT
                         ![h] = [IdleHandler EXCEPT !.kind = "unlock", !.pc = "clicked", !.msg = m]]
    /\ UNCHANGED <<user_data, buttons, edited, observed, seqvars>>

\* lines 147-174: the handler runs to its first await: the alert of the
\* early return (line 168), or `Processing...` after the state was written.
UnlockBegin(h) ==
    /\ At(h, "unlock", "clicked")
    /\ IF PassesGuard(user_data.state)
       THEN /\ user_data' = [user_data EXCEPT !.state = FLOW_PROCESSING_PAYMENT]
            /\ handlers' = [handlers EXCEPT ![h] = Advance(h, "answer", <<>>, FALSE)]
       ELSE /\ user_data' = user_data
            /\ handlers' = [handlers EXCEPT ![h] = Advance(h, "reject_answer", <<>>, FALSE)]
    /\ UNCHANGED <<buttons, edited, observed, seqvars>>

\* lines 168-169: the alert is awaited outside the try block.
UnlockRejectAnswerDone(h) ==
    /\ At(h, "unlock", "reject_answer")
    /\ \E r \in UserOutcomes :
          handlers' = [handlers EXCEPT ![h] =
              Advance(h, IF r = "ok" THEN "rejected" ELSE "reject_raised", <<"ALERT">>, r # "ok")]
    /\ UNCHANGED <<user_data, buttons, edited, observed, seqvars>>

\* lines 174-186: query.answer("Processing...") ends, the edit is called.
UnlockAnswerDone(h) ==
    /\ At(h, "unlock", "answer")
    /\ \E r \in UserOutcomes :
          handlers' = [handlers EXCEPT ![h] =
              Advance(h, IF r = "ok" THEN "edit" ELSE UnlockExcept(r), <<"ANSWER">>, r # "ok")]
    /\ UNCHANGED <<user_data, buttons, edited, observed, seqvars>>

\* lines 180-189: edit_message_text ends, the handler sleeps.
UnlockEditDone(h) ==
    /\ At(h, "unlock", "edit")
    /\ \E r \in EditOutcomes(handlers[h].msg) :
          /\ handlers' = [handlers EXCEPT ![h] =
                 Advance(h, IF r = "ok" THEN "sleep" ELSE UnlockExcept(r), <<"EDIT">>, r # "ok")]
          /\ edited' = IF r = "ok" THEN edited \cup {handlers[h].msg} ELSE edited
    /\ UNCHANGED <<user_data, buttons, observed, seqvars>>

\* lines 189-204: the sleep ends, the confirmation is called.
UnlockSleepDone(h) ==
    /\ At(h, "unlock", "sleep")
    /\ handlers' = [handlers EXCEPT ![h] = Advance(h, "confirm", <<>>, FALSE)]
    /\ UNCHANGED <<user_data, buttons, edited, observed, seqvars>>

\* lines 204-207: the confirmation ends; line 206 writes the state.
UnlockConfirmDone(h) ==
    /\ At(h, "unlock", "confirm")
    /\ \E r \in UserOutcomes :
          IF r = "ok"
          THEN /\ handlers' = [handlers EXCEPT
                                 ![h] = Advance(h, "complete", <<"PAYMENT_009">>, FALSE)]
               /\ user_data' = [user_data EXCEPT !.state = FLOW_PAYMENT_COMPLETE]
          ELSE /\ handlers' = [handlers EXCEPT
                                 ![h] = Advance(h, UnlockExcept(r), <<"PAYMENT_009">>, TRUE)]
               /\ user_data' = user_data
    /\ UNCHANGED <<buttons, edited, observed, seqvars>>

\* lines 217-218 and 221-222: the error message, then the revert; when the
\* error message raises, the exception leaves the handler before the revert.
UnlockErrorSendDone(h) ==
    /\ At(h, "unlock", "error_send")
    /\ \E r \in UserOutcomes :
          IF r = "ok"
          THEN /\ handlers' = [handlers EXCEPT ![h] = Advance(h, "reverted", <<"ERROR">>, FALSE)]
               /\ user_data' = [user_data EXCEPT !.state = FLOW_PAYMENT_BUTTON_SHOWN]
          ELSE /\ handlers' = [handlers EXCEPT ![h] = Advance(h, "raised", <<"ERROR">>, TRUE)]
               /\ user_data' = user_data
    /\ UNCHANGED <<buttons, edited, observed, seqvars>>

handle_unlock_repair_callback_unified(h) ==
    \/ Click(h)
    \/ UnlockBegin(h)
    \/ UnlockRejectAnswerDone(h)
    \/ UnlockAnswerDone(h)
    \/ UnlockEditDone(h)
    \/ UnlockSleepDone(h)
    \/ UnlockConfirmDone(h)
    \/ UnlockErrorSendDone(h)

(***************************************************************************)
(* SpecFlow: the user's updates, their handlers interleaved.  The session  *)
(* starts empty, or as a completed run left it (button shown), or empty    *)
(* after a restart of the bot while the chat still shows a button.         *)
(***************************************************************************)
ShownByEarlierRun ==
    [state |-> FLOW_PAYMENT_BUTTON_SHOWN, user_id |-> "set",
     user_secure_id_formatted |-> "USR", slot_id |-> EarlierRun,
     access_key |-> EarlierRun, z1_payment_message_id |-> EarlierRun]

InitSession ==
    /\ InitCommon
    /\ targetValid = [ch \in Chats |-> TRUE]
    /\ pc = [c \in Calls |-> "absent"]
    /\ chat_id = [c \in Calls |-> UserChat]
    /\ sequence = [c \in Calls |-> <<>>]
    /\ initial_delay = [c \in Calls |-> 0]
    /\ handlers = [h \in Handlers |-> IdleHandler]
    /\ edited = {}
    /\ \/ user_data = FreshUserData /\ buttons = {}
       \/ user_data = ShownByEarlierRun /\ buttons = {EarlierRun}
       \/ user_data = FreshUserData /\ buttons = {EarlierRun}

InitFlow ==
    /\ InitSession
    /\ observed = {}

NextFlow ==
    \E h \in Handlers :
        \/ start_z1_gray_unified_flow(h)
        \/ handle_unlock_repair_callback_unified(h)

SpecFlow == InitFlow /\ [][NextFlow]_vars

\* SpecRun: the same session, with the text of the last update and the sends
\* its handler attempts recorded in the handler's log; the handlers of the
\* earlier updates ran before it or run interleaved with it.
InitRun ==
    /\ InitSession
    /\ observed = {MaxHandlers}

SpecRun == InitRun /\ [][NextFlow]_vars

(***************************************************************************)
(* The step 1 handler, start_step_1_flow (src/handlers/step_1.py), run on  *)
(* the /start updates of one user.  Its handlers share the user's          *)
(* context.user_data, here the keys of the stepwise flow.                  *)
(***************************************************************************)
AWAITING_STEP_1_BUTTON == "AWAITING_STEP_1_BUTTON"
AWAITING_STEP_2_FROM_DIAGNOSTIC == "AWAITING_STEP_2_FROM_DIAGNOSTIC"
AWAITING_STEP_2_FROM_PROTOCOL == "AWAITING_STEP_2_FROM_PROTOCOL"
AWAITING_STEP_2_FROM_IGNORE == "AWAITING_STEP_2_FROM_IGNORE"
STEP_2_STARTED_ANALYSIS == "step_2_started_analysis"
STEP_2_SCAN_COMPLETE_AWAITING_S3 == "step_2_scan_complete_awaiting_s3"

\* current_step.startswith("AWAITING_STEP_2_FROM_"), on the values the code
\* stores under current_flow_step and on "" (the key is absent).
StartsWithAwaitingStep2From(current_step) ==
    current_step \in {AWAITING_STEP_2_FROM_DIAGNOSTIC, AWAITING_STEP_2_FROM_PROTOCOL,
                      AWAITING_STEP_2_FROM_IGNORE}

\* context.user_data.get("current_flow_step", "")
CurrentStep(ud) == IF ud.current_flow_step = "unset" THEN "" ELSE ud.current_flow_step

\* The test of line 118.
ShouldRestart(text, ud) ==
    text = "/start" /\ StartsWithAwaitingStep2From(CurrentStep(ud))

\* lines 128-130
PopStepKeys(ud) ==
    [ud EXCEPT !.current_flow_step = "unset", !.entry_point_s2 = "unset",
               !.risk_score = "unset"]

\* The five messages of step 1 and the keyboard message, in their order.
step_1_messages ==
    <<"ACCESS_NODE_CONFIRMED", "SECURE_IDENTIFIER_GENERATED", "CRITICAL_WARNING",
      "SYSTEM_ALERT", "ACTION_REQUIRED", "SELECT ACTION:">>

FreshStepData ==
    [current_flow_step |-> "unset", entry_point_s2 |-> "unset", risk_score |-> "unset",
     secure_id |-> "unset", user_id |-> "unset"]

\* What the stepwise flow has left in user_data when an update arrives: nothing,
\* or the keys written by step 1, by one of its three buttons (a risk_score is
\* left over when the user went through step 2 before), by the step 2 entry
\* or by the scan of step 2.
StepSessions ==
    {FreshStepData,
     [FreshStepData EXCEPT !.secure_id = "set", !.current_flow_step = AWAITING_STEP_1_BUTTON]}
    \cup {[current_flow_step |-> e[1], entry_point_s2 |-> e[2], risk_score |-> r,
           secure_id |-> "set", user_id |-> "unset"] :
             e \in {<<AWAITING_STEP_2_FROM_DIAGNOSTIC, "from_diagnostic">>,
                    <<AWAITING_STEP_2_FROM_PROTOCOL, "from_protocol">>,
                    <<AWAITING_STEP_2_FROM_IGNORE, "from_ignore">>},
             r \in {"unset", "set"}}
    \cup {[current_flow_step |-> s, entry_point_s2 |-> "from_diagnostic", risk_score |-> "set",
           secure_id |-> "set", user_id |-> u] :
             s \in {STEP_2_STARTED_ANALYSIS}, u \in {"unset"}}
    \cup {[current_flow_step |-> STEP_2_SCAN_COMPLETE_AWAITING_S3,
           entry_point_s2 |-> "from_diagnostic", risk_score |-> "set",
           secure_id |-> "set", user_id |-> "set"]}

\* What an update handed to the handler can lack.
UpdateShapes == {"complete", "no_message", "no_user"}

\* lines 104-135: up to the first await.
Step1Begin(h) ==
    /\ Arrives(h)
    /\ \E text \in StartTexts, shape \in UpdateShapes :
          LET begun == [IdleHandler EXCEPT !.kind = "step_1",
                                           !.log = IF h \in observed THEN <<text>> ELSE <<>>]
          IN  IF shape = "no_message"
              THEN /\ handlers' = [handlers EXCEPT ![h] = [begun EXCEPT !.pc = "ignored"]]
                   /\ user_data' = user_data
              ELSE IF shape = "no_user"
              THEN /\ handlers' = [handlers EXCEPT ![h] = [begun EXCEPT !.pc = "error_reply"]]
                   /\ user_data' = user_data
              ELSE IF ShouldRestart(text, user_data)
              THEN /\ handlers' = [handlers EXCEPT ![h] = [begun EXCEPT !.pc = "notice"]]
                   /\ user_data' = user_data
              ELSE /\ handlers' = [handlers EXCEPT ![h] = [begun EXCEPT !.pc = "action", !.i = 1]]
                   /\ user_data' = [user_data EXCEPT !.secure_id = "set"]
    /\ UNCHANGED <<buttons, edited, observed, seqvars>>

\* lines 123-139: the notice is awaited outside the try block; the keys are
\* popped after it.
Step1NoticeDone(h) ==
    /\ At(h, "step_1", "notice")
    /\ \E r \in UserOutcomes :
          IF r = "ok"
          THEN /\ handlers' = [handlers EXCEPT
                                 ![h] = [Advance(h, "action", <<"NOTICE">>, FALSE) EXCEPT !.i = 1]]
               /\ user_data' = [PopStepKeys(user_data) EXCEPT !.secure_id = "set"]
          ELSE /\ handlers' = [handlers EXCEPT ![h] = Advance(h, "raised", <<"NOTICE">>, TRUE)]
               /\ user_data' = user_data
    /\ UNCHANGED <<buttons, edited, observed, seqvars>>

\* The presence signal before message i and the typing sleep after it
\* (lines 139-140, 144-145, 154-155, 162-163, 169-170, 183-184).
Step1ActionDone(h) ==
    /\ At(h, "step_1", "action")
    /\ \E r \in UserOutcomes :
          handlers' = [handlers EXCEPT ![h] =
              Advance(h, IF r = "ok" THEN "send" ELSE "error_reply", <<>>, FALSE)]
    /\ UNCHANGED <<user_data, buttons, edited, observed, seqvars>>

\* The send of message i and the sleep after it; after the keyboard message
\* (line 185), the write of line 187.
Step1SendDone(h) ==
    /\ At(h, "step_1", "send")
    /\ LET i == handlers[h].i
       IN  \E r \in UserOutcomes :
              IF r # "ok"
              THEN /\ handlers' = [handlers EXCEPT
                         ![h] = Advance(h, "error_reply", <<step_1_messages[i]>>, TRUE)]
                   /\ UNCHANGED <<user_data, buttons>>
              ELSE IF i < Len(step_1_messages)
              THEN /\ handlers' = [handlers EXCEPT ![h] =
                         [Advance(h, "action", <<step_1_messages[i]>>, FALSE) EXCEPT !.i = i + 1]]
                   /\ UNCHANGED <<user_data, buttons>>
              ELSE /\ handlers' = [handlers EXCEPT
                         ![h] = Advance(h, "awaiting", <<step_1_messages[i]>>, FALSE)]
                   /\ buttons' = buttons \cup {h}
                   /\ user_data' = [user_data EXCEPT !.current_flow_step = AWAITING_STEP_1_BUTTON]
    /\ UNCHANGED <<edited, observed, seqvars>>

\* lines 111-112 and 189-191: send_system_error_reply swallows every
\* exception of its send (lines 87-100).
Step1ErrorReplyDone(h) ==
    /\ At(h, "step_1", "error_reply")
    /\ \E r \in UserOutcomes :
          handlers' = [handlers EXCEPT ![h] = Advance(h, "failed", <<"SYSTEM_ERROR">>, r # "ok")]
    /\ UNCHANGED <<user_data, buttons, edited, observed, seqvars>>

start_step_1_flow(h) ==
    \/ Step1Begin(h)
    \/ Step1NoticeDone(h)
    \/ Step1ActionDone(h)
    \/ Step1SendDone(h)
    \/ Step1ErrorReplyDone(h)

\* No call of send_delayed_sequence is in progress and no update has arrived.
InitHandlers ==
    /\ InitCommon
    /\ targetValid = [ch \in Chats |-> TRUE]
    /\ pc = [c \in Calls |-> "absent"]
    /\ chat_id = [c \in Calls |-> UserChat]
    /\ sequence = [c \in Calls |-> <<>>]
    /\ initial_delay = [c \in Calls |-> 0]
    /\ handlers = [h \in Handlers |-> IdleHandler]
    /\ edited = {}
    /\ observed = {MaxHandlers}

InitStep1 ==
    /\ InitHandlers
    /\ user_data \in StepSessions
    /\ buttons = {}

NextStep1 == \E h \in Handlers : start_step_1_flow(h)

\* SpecStep1: /start updates of one user handled by start_step_1_flow, the
\* sends of the last one recorded in its log.
SpecStep1 == InitStep1 /\ [][NextStep1]_vars

(***************************************************************************)
(* The scan of step 2, execute_step_2_scan_sequence                        *)
(* (src/handlers/step_2.py), run on the callbacks of one user.             *)
(***************************************************************************)
\* lines 39-70: the six scan messages, each text named by its first words;
\* delays in tenths of a second.
step_2_scan_messages ==
    <<Scripted("SIGNAL_RESONANCE_SCAN", 25), Scripted("SIGNAL_VARIANCE", 30),
      Scripted("NODE_STABILITY_STATUS", 20), Scripted("SYSTEM_LOCK", 25),
      Scripted("TRACE_SIGNAL_INTEGRITY", 30), Scripted("NODE_ANOMALY_LEVEL", 35)>>

\* line 74: initial_delay=0.8
ScanInitialDelay == 8

\* Mutant: the test of the repeated trigger never succeeds.
AlreadyScanned_Never(ud) == FALSE

\* line 28: the scan was completed before.
AlreadyScanned(ud) == ud.current_flow_step = STEP_2_SCAN_COMPLETE_AWAITING_S3

\* lines 15-74: up to the first await: the error reply for an update that
\* lacks its callback query, message or user, the answer to a repeated
\* trigger, or the initial sleep of send_delayed_sequence.
Step2Begin(h) ==
    /\ Arrives(h)
    /\ \E shape \in {"complete", "invalid"} :
          LET begun == [IdleHandler EXCEPT !.kind = "step_2",
                                           !.log = IF h \in observed THEN <<shape>> ELSE <<>>]
              known == [user_data EXCEPT !.user_id = "set"]
          IN  IF shape = "invalid"
              THEN /\ handlers' = [handlers EXCEPT ![h] = [begun EXCEPT !.pc = "invalid_reply"]]
                   /\ user_data' = user_data
              ELSE IF AlreadyScanned(known)
              THEN /\ handlers' = [handlers EXCEPT ![h] = [begun EXCEPT !.pc = "reject_answer"]]
                   /\ user_data' = known
              ELSE /\ handlers' = [handlers EXCEPT
                         ![h] = [begun EXCEPT !.pc = IF ShouldSleepInitially(ScanInitialDelay)
                                                      THEN "scan_sleep" ELSE "scan",
                                              !.i = 1]]
                   /\ user_data' = known
    /\ UNCHANGED <<buttons, edited, observed, seqvars>>

\* lines 30-34: the answer to a repeated trigger; its exceptions are caught.
Step2RejectAnswerDone(h) ==
    /\ At(h, "step_2", "reject_answer")
    /\ \E r \in UserOutcomes :
          handlers' = [handlers EXCEPT ![h] = Advance(h, "rejected", <<"ANSWER">>, r # "ok")]
    /\ UNCHANGED <<user_data, buttons, edited, observed, seqvars>>

\* line 74, src/handlers/step_1.py lines 51-52: the initial sleep is over.
Step2ScanSleepDone(h) ==
    /\ At(h, "step_2", "scan_sleep")
    /\ handlers' = [handlers EXCEPT ![h] = Advance(h, "scan", <<>>, FALSE)]
    /\ UNCHANGED <<user_data, buttons, edited, observed, seqvars>>

\* line 74: send_delayed_sequence handles item i of the scan (signal, sleep
\* and send); when it returns after the last item, line 77 marks the scan
\* complete before the presence signal of line 80 is awaited.
Step2ScanItemDone(h) ==
    /\ At(h, "step_2", "scan")
    /\ LET i == handlers[h].i
           item == <<step_2_scan_messages[i]>>
       IN  \E oc \in ItemOutcomes(item) :
              LET run == SequenceFrom(item, 1, oc)
              IN  IF run.raised
                  THEN /\ handlers' = [handlers EXCEPT
                             ![h] = Advance(h, "error_reply", run.log, run.lost)]
                       /\ user_data' = user_data
                  ELSE IF i < Len(step_2_scan_messages)
                  THEN /\ handlers' = [handlers EXCEPT ![h] =
                             [Advance(h, "scan", run.log, run.lost) EXCEPT !.i = NextIndex(i)]]
                       /\ user_data' = user_data
                  ELSE /\ handlers' = [handlers EXCEPT
                             ![h] = Advance(h, "action", run.log, run.lost)]
                       /\ user_data' = [user_data EXCEPT
                             !.current_flow_step = STEP_2_SCAN_COMPLETE_AWAITING_S3]
    /\ UNCHANGED <<buttons, edited, observed, seqvars>>

\* lines 80-81: the presence signal, then the sleep of 2.0 s.
Step2ActionDone(h) ==
    /\ At(h, "step_2", "action")
    /\ \E r \in UserOutcomes :
          handlers' = [handlers EXCEPT ![h] =
              Advance(h, IF r = "ok" THEN "send" ELSE "error_reply", <<>>, FALSE)]
    /\ UNCHANGED <<user_data, buttons, edited, observed, seqvars>>

\* lines 96-102: the transition message with the button of step 3.
Step2SendDone(h) ==
    /\ At(h, "step_2", "send")
    /\ \E r \in UserOutcomes :
          IF r = "ok"
          THEN /\ handlers' = [handlers EXCEPT ![h] = Advance(h, "guided", <<"TRANSITION">>, FALSE)]
               /\ buttons' = buttons \cup {h}
          ELSE /\ handlers' = [handlers EXCEPT
                                 ![h] = Advance(h, "error_reply", <<"TRANSITION">>, TRUE)]
               /\ buttons' = buttons
    /\ UNCHANGED <<user_data, edited, observed, seqvars>>

\* lines 20-21 and 104-106: send_system_error_reply swallows every exception
\* of its send (src/handlers/step_1.py, lines 87-100).
Step2ErrorReplyDone(h) ==
    /\ handlers[h].kind = "step_2"
    /\ handlers[h].pc \in {"invalid_reply", "error_reply"}
    /\ \E r \in UserOutcomes :
          handlers' = [handlers EXCEPT ![h] = Advance(h, "failed", <<"SYSTEM_ERROR">>, r # "ok")]
    /\ UNCHANGED <<user_data, buttons, edited, observed, seqvars>>

execute_step_2_scan_sequence(h) ==
    \/ Step2Begin(h)
    \/ Step2RejectAnswerDone(h)
    \/ Step2ScanSleepDone(h)
    \/ Step2ScanItemDone(h)
    \/ Step2ActionDone(h)
    \/ Step2SendDone(h)
    \/ Step2ErrorReplyDone(h)

\* A session whose scan was completed got its transition message from the
\* run that completed it.
InitStep2 ==
    /\ InitHandlers
    /\ user_data \in StepSessions
    /\ buttons = IF AlreadyScanned(user_data) THEN {EarlierRun} ELSE {}

NextStep2 == \E h \in Handlers : execute_step_2_scan_sequence(h)

\* SpecStep2: callbacks of one user handled by execute_step_2_scan_sequence,
\* the sends of the last one recorded in its log.
SpecStep2 == InitStep2 /\ [][NextStep2]_vars

(***************************************************************************)
(* Observations on the trace of a call, used by the properties below.      *)
(***************************************************************************)
IsSend(e) == e.op = "send"

IsDelivered(e) == e.res = "ok" /\ e.op \in {"chat_action", "send"}

\* The send attempts of call c, in the order they were made.
SendEvents(c) == SelectSeq(trace[c], IsSend)

\* The positions in trace[c] of the awaits made for item i.
EventsOf(c, i) == {k \in 1..Len(trace[c]) : trace[c][k].item = i}

\* What call c has had delivered, as the chat sees it.
RECURSIVE EntriesOf(_)
EntriesOf(evs) ==
    IF evs = <<>> THEN <<>>
    ELSE LET e == Head(evs)
         IN  (IF e.op = "send" THEN <<MessageEntry(e.text)>> ELSE <<TypingEntry>>)
             \o EntriesOf(Tail(evs))

DeliveredBy(c) == EntriesOf(SelectSeq(trace[c], IsDelivered))

Returned(c) == pc[c] = "returned"

Failures == {"TelegramError", "Exception"}

\* The send attempts of a call that returned: one per item, in list order.
AllAttemptedInOrder(c) ==
    /\ Len(SendEvents(c)) = Len(sequence[c])
    /\ \A i \in 1..Len(sequence[c]) :
          /\ SendEvents(c)[i].item = i
          /\ SendEvents(c)[i].text = sequence[c][i].text
          /\ SendEvents(c)[i].res \in {"ok"} \cup Failures

WentOnAfter(c, k) ==
    IF k < Len(trace[c])
    THEN trace[c][k + 1].item = trace[c][k].item + 1
    ELSE Returned(c) /\ trace[c][k].item = Len(sequence[c])

C2_TelegramErrorOnSendContinues ==
    \A c \in Calls : \A k \in 1..Len(trace[c]) :
        (trace[c][k].op = "send" /\ trace[c][k].res = "TelegramError") =>
            /\ WentOnAfter(c, k)
            /\ exc[c] # "TelegramError"
            /\ Returned(c) =>
                  \A j \in (trace[c][k].item + 1)..Len(sequence[c]) :
                      \E m \in (k + 1)..Len(trace[c]) :
                          trace[c][m].op = "send" /\ trace[c][m].item = j

C2_Witness ==
    /\ Returned(1)
    /\ Len(sequence[1]) = 2
    /\ \E k \in 1..Len(trace[1]) : \E m \in (k + 1)..Len(trace[1]) :
          /\ trace[1][k].op = "send" /\ trace[1][k].item = 1
          /\ trace[1][k].res = "TelegramError"
          /\ trace[1][m].op = "send" /\ trace[1][m].item = 2
          /\ trace[1][m].res = "ok"
    /\ inbox[chat_id[1]] # <<>>

(***************************************************************************)
(* C3: a send that fails with an exception that is not a TelegramError is  *)
(* caught at that item: no exception leaves the call there and the call    *)
(* goes on with the remaining items.                                       *)
(***************************************************************************)
C3_UnexpectedErrorOnSendContinues ==
    \A c \in Calls : \A k \in 1..Len(trace[c]) :
        (trace[c][k].op = "send" /\ trace[c][k].res = "Exception") =>
            /\ WentOnAfter(c, k)
            /\ (pc[c] = "raised" => k < Len(trace[c]))

C3_Witness ==
    /\ Returned(1)
    /\ Len(sequence[1]) = 2
    /\ SendEvents(1)[1].res = "Exception"
    /\ SendEvents(1)[2].res \in {"ok"} \cup Failures

(***************************************************************************)
(* C4: the items are processed strictly in list order: an await starts     *)
(* only when every earlier one has completed, the awaits of an item come   *)
(* as signal, sleep, send, no await of an item comes after one of a later  *)
(* item, and the chat holds the delivered messages in input order.         *)
(***************************************************************************)
OpRank(op) == CASE op = "chat_action" -> 1 [] op = "sleep" -> 2 [] op = "send" -> 3

\* The items of call c whose send succeeded, in the order of the sends.
RECURSIVE ItemsOf(_)
ItemsOf(evs) == IF evs = <<>> THEN <<>> ELSE <<Head(evs).item>> \o ItemsOf(Tail(evs))

IsDeliveredSend(e) == e.op = "send" /\ e.res = "ok"

DeliveredItems(c) == ItemsOf(SelectSeq(trace[c], IsDeliveredSend))

IsMessage(entry) == entry.kind = "message"

C4_StrictlyInListOrder ==
    \A c \in Calls :
        /\ \A j, k \in 1..Len(trace[c]) :
              j < k =>
                /\ trace[c][j].res # "pending"
                /\ trace[c][j].item <= trace[c][k].item
                /\ trace[c][j].item = trace[c][k].item =>
                      OpRank(trace[c][j].op) < OpRank(trace[c][k].op)
        /\ LET items == DeliveredItems(c)
               msgs == SelectSeq(inbox[chat_id[c]], IsMessage)
           IN  pc[c] # "absent" =>
                /\ \A j, k \in 1..Len(items) : j < k => items[j] < items[k]
                /\ Len(msgs) = Len(items)
                /\ \A k \in 1..Len(items) : msgs[k].text = sequence[c][items[k]].text

C4_Witness ==
    /\ pc[1] = "chat_action" /\ idx[1] = 2
    /\ \E k \in 1..Len(trace[1]) :
          trace[1][k].op = "send" /\ trace[1][k].item = 1 /\ trace[1][k].res = "ok"
    /\ sequence[1][1].text # sequence[1][2].text

(***************************************************************************)
(* C5: at most one send attempt per item per call, failed or not, so the   *)
(* chat never holds more messages of a text than the sequence has items    *)
(* with that text.                                                         *)
(***************************************************************************)
C5_AtMostOneAttemptPerItem ==
    \A c \in Calls :
        /\ \A i \in 1..Len(sequence[c]) :
              Cardinality({k \in EventsOf(c, i) : trace[c][k].op = "send"}) <= 1
        /\ \A t \in Texts :
              pc[c] = "absent" \/
              Cardinality({k \in 1..Len(inbox[chat_id[c]]) :
                              inbox[chat_id[c]][k] = MessageEntry(t)})
                <= Cardinality({i \in 1..Len(sequence[c]) : sequence[c][i].text = t})

C5_Witness ==
    /\ Returned(1)
    /\ Len(sequence[1]) = 2
    /\ SendEvents(1)[1].res \in Failures
    /\ Len(SendEvents(1)) = 2

(***************************************************************************)
(* C6: a typing presence signal is emitted for an item exactly when its    *)
(* typing flag is true and its delay_before is greater than 0.2 (2 tenths  *)
(* of a second): one signal, before the item's sleep and send; for every   *)
(* other item none.                                                        *)
(***************************************************************************)
SignalsOf(c, i) == {k \in EventsOf(c, i) : trace[c][k].op = "chat_action"}

C6_TypingSignalExactlyWhen ==
    \A c \in Calls : \A i \in 1..Len(sequence[c]) :
        EventsOf(c, i) # {} =>
            /\ Cardinality(SignalsOf(c, i)) =
                  IF sequence[c][i].typing /\ sequence[c][i].delay_before > 2 THEN 1 ELSE 0
            /\ \A k \in SignalsOf(c, i) : \A m \in EventsOf(c, i) \ SignalsOf(c, i) : k < m

\* The scenario of spec section 8 against a target that always succeeds: one
\* signal in the whole call, between the messages A and B.
C6_Witness ==
    /\ sequence[1] = Scenario
    /\ Returned(1)
    /\ inbox[chat_id[1]] = <<MessageEntry("A"), TypingEntry, MessageEntry("B"), MessageEntry("C")>>
    /\ Cardinality({k \in 1..Len(trace[1]) : trace[1][k].op = "chat_action"}) = 1

(***************************************************************************)
(* C7 (as stated): a failed presence signal, whatever the kind of failure, *)
(* is non-fatal: the call goes on to the sleep or send of the same item.   *)
(***************************************************************************)
C7_SignalFailureIsNonFatal ==
    \A c \in Calls : \A k \in 1..Len(trace[c]) :
        (trace[c][k].op = "chat_action" /\ trace[c][k].res \in Failures) =>
            /\ k < Len(trace[c])
            /\ trace[c][k + 1].item = trace[c][k].item
            /\ trace[c][k + 1].op \in {"sleep", "send"}

(***************************************************************************)
(* C8: a cancellation that arrives while the call is suspended ends the    *)
(* call at that await: the cancelled await is the last thing the call did, *)
(* and CancelledError leaves the call instead of being handled per item.   *)
(***************************************************************************)
C8_CancellationStopsTheCall ==
    \A c \in Calls : \A k \in 1..Len(trace[c]) :
        trace[c][k].res = "CancelledError" =>
            /\ k = Len(trace[c])
            /\ pc[c] = "raised"
            /\ exc[c] = "CancelledError"

C8_Witness ==
    /\ pc[1] = "raised" /\ exc[1] = "CancelledError"
    /\ Len(sequence[1]) = 2
    /\ trace[1] # <<>>
    /\ trace[1][Len(trace[1])].op = "send"
    /\ trace[1][Len(trace[1])].item = 1
    /\ trace[1][Len(trace[1])].res = "CancelledError"

(***************************************************************************)
(* C9: when the target is invalid for the whole call, no exception other   *)
(* than a cancellation leaves the call, nothing is delivered, and a call   *)
(* that returns has attempted every one of the N items and each attempt    *)
(* failed with a delivery error.                                           *)
(***************************************************************************)
C9_InvalidTargetAllItemsFail ==
    \A c \in Calls :
        (pc[c] # "absent" /\ ~targetValid[chat_id[c]]) =>
            /\ exc[c] \in {"none", "CancelledError"}
            /\ inbox[chat_id[c]] = <<>>
            /\ Returned(c) =>
                  /\ Len(SendEvents(c)) = Len(sequence[c])
                  /\ \A i \in 1..Len(sequence[c]) :
                        /\ SendEvents(c)[i].item = i
                        /\ SendEvents(c)[i].res = "TelegramError"

C9_Witness ==
    /\ ~targetValid[chat_id[1]]
    /\ Returned(1)
    /\ Len(sequence[1]) = 2
    /\ Len(SendEvents(1)) = 2
    /\ \E k \in 1..Len(trace[1]) : trace[1][k].op = "chat_action"

(***************************************************************************)
(* C10: two interleaved calls for different chats do not interfere: each   *)
(* chat holds exactly what its own call had delivered, in that call's      *)
(* order and with its own sequence's texts, and a call that returns has    *)
(* attempted each of its own items once, whatever happened in the other.   *)
(***************************************************************************)
C10_CallsAreIndependent ==
    \A c \in Calls :
        /\ inbox[chat_id[c]] = DeliveredBy(c)
        /\ \A k \in 1..Len(trace[c]) :
              trace[c][k].op = "send" => trace[c][k].text = sequence[c][trace[c][k].item].text
        /\ \A j, k \in 1..Len(trace[c]) : j < k => trace[c][j].item <= trace[c][k].item
        /\ Returned(c) => AllAttemptedInOrder(c)

C10_Witness ==
    /\ pc[1] = "send" /\ idx[1] = 2
    /\ pc[2] = "send" /\ idx[2] = 2
    /\ SendEvents(1)[1].res = "TelegramError"
    /\ SendEvents(2)[1].res = "ok"
    /\ inbox[chat_id[1]] # inbox[chat_id[2]]

(***************************************************************************)
(* C11: a step of send_delayed_sequence changes nothing but the call's own *)
(* progress and the chat it was given: its arguments (the sequence and its *)
(* items, the chat id, the initial delay) stay as they were, no other chat *)
(* receives anything, and user_data is not written.                        *)
(***************************************************************************)
C11_OnlyTheTargetChatChanges ==
    [][ /\ sequence' = sequence
        /\ chat_id' = chat_id
        /\ initial_delay' = initial_delay
        /\ user_data' = user_data
        /\ targetValid' = targetValid
        /\ \A ch \in Chats :
              (\A c \in Calls : pc[c] # "absent" => ch # chat_id[c]) => inbox'[ch] = inbox[ch]
        /\ \A c \in Calls : pc[c] = "absent" =>
              /\ pc'[c] = "absent"
              /\ trace'[c] = trace[c] ]_vars

C11_Witness ==
    /\ Returned(1)
    /\ chat_id[1] = 102
    /\ Len(inbox[102]) = 3
    /\ inbox[101] = <<>>
    /\ user_data = FreshUserData

(***************************************************************************)
(* C12: for an item whose delay_before is 0 or negative the call neither   *)
(* sleeps nor emits a presence signal, whatever the typing flag: the send  *)
(* is the only await made for the item.                                    *)
(***************************************************************************)
C12_NoSleepNoSignalWithoutDelay ==
    \A c \in Calls : \A i \in 1..Len(sequence[c]) :
        sequence[c][i].delay_before <= 0 =>
            \A k \in EventsOf(c, i) : trace[c][k].op = "send"

C12_Witness ==
    /\ Returned(1)
    /\ Len(sequence[1]) = 2
    /\ sequence[1][1].delay_before < 0 /\ sequence[1][1].typing
    /\ sequence[1][2].delay_before = 0 /\ sequence[1][2].typing
    /\ Len(trace[1]) = 2

(***************************************************************************)
(* C13: for an empty sequence the call attempts no message send and no     *)
(* presence signal, delivers nothing, and what it returns holds no outcome *)
(* (the return value is None).                                             *)
(***************************************************************************)
C13_EmptySequenceSendsNothing ==
    \A c \in Calls :
        (pc[c] # "absent" /\ sequence[c] = <<>>) =>
            /\ \A k \in 1..Len(trace[c]) : trace[c][k].op = "sleep" /\ trace[c][k].item = 0
            /\ inbox[chat_id[c]] = <<>>
            /\ pc[c] \in {"start", "initial_sleep", "returned", "raised"}
            /\ pc[c] = "raised" => exc[c] = "CancelledError"
            /\ Returned(c) => ret[c].items = <<>>

C13_Witness ==
    /\ sequence[1] = <<>>
    /\ Returned(1)
    /\ initial_delay[1] = 0
    /\ trace[1] = <<>>

(***************************************************************************)
(* C14: the initial delay is slept exactly once per call when              *)
(* initial_delay is greater than 0 and not at all otherwise; the sleep is  *)
(* the first await of the call and lasts initial_delay.                    *)
(***************************************************************************)
C14_InitialDelayOnceBeforeFirstItem ==
    \A c \in Calls :
        pc[c] \notin {"absent", "start"} =>
            /\ Cardinality(EventsOf(c, 0)) = IF initial_delay[c] > 0 THEN 1 ELSE 0
            /\ \A k \in EventsOf(c, 0) :
                  /\ k = 1
                  /\ trace[c][k].op = "sleep"
                  /\ trace[c][k].dur = initial_delay[c]

C14_Witness ==
    /\ Returned(1)
    /\ Len(sequence[1]) = 2
    /\ initial_delay[1] = 8
    /\ EventsOf(1, 0) = {1}
    /\ Len(trace[1]) >= 5

(***************************************************************************)
(* C15 (as stated): when no await hangs and the task is not cancelled, the *)
(* call ends by returning, and by then every item has had exactly one send *)
(* attempt.                                                                *)
(***************************************************************************)
C15_EndsByReturning ==
    \A c \in Calls :
        /\ pc[c] # "raised"
        /\ Returned(c) => AllAttemptedInOrder(c)

(***************************************************************************)
(* C16 (as stated): each send delivers the item's own text together with   *)
(* the item's own formatting mode and, when it has one, its attached       *)
(* action.                                                                 *)
(***************************************************************************)
HasOwnFormatting(item) == {"formatting", "attached_action"} \subseteq DOMAIN item

PassedGuard(h) ==
    /\ handlers[h].kind = "unlock"
    /\ handlers[h].pc \in {"answer", "edit", "sleep", "confirm", "error_send",
                           "complete", "reverted", "not_modified", "raised"}

\* Handler h is past the guard and has not ended.
Processing(h) == PassedGuard(h) /\ handlers[h].pc \notin Ended

\* Handler h takes the step from one state to the next.
Moves(h) == handlers'[h] # handlers[h]

(***************************************************************************)
(* C17: the unlock callback goes past its guard only when the flow state   *)
(* is FLOW_PAYMENT_BUTTON_SHOWN.  In every other state it only awaits the  *)
(* alert answer and ends: user_data, the flow state included, stays as it  *)
(* was, no message is edited, and it never reaches an edit or a send.      *)
(***************************************************************************)
C17_WorksOnlyWhenButtonShown ==
    [][\A h \in Handlers :
          /\ At(h, "unlock", "clicked") /\ Moves(h) =>
                IF user_data.state = FLOW_PAYMENT_BUTTON_SHOWN
                THEN handlers'[h].pc = "answer"
                ELSE /\ handlers'[h].pc = "reject_answer"
                     /\ UNCHANGED <<user_data, buttons, edited>>
          /\ At(h, "unlock", "reject_answer") /\ Moves(h) =>
                /\ handlers'[h].pc \in {"rejected", "reject_raised"}
                /\ UNCHANGED <<user_data, buttons, edited>> ]_vars

\* A click is turned away while an earlier click is being processed.
C17_Witness ==
    \E h, g \in Handlers :
        /\ At(h, "unlock", "sleep")
        /\ At(g, "unlock", "rejected")
        /\ user_data.state = FLOW_PROCESSING_PAYMENT
        /\ edited = {EarlierRun}

(***************************************************************************)
(* C18: a callback goes past the guard only by taking the state from       *)
(* FLOW_PAYMENT_BUTTON_SHOWN to FLOW_PROCESSING_PAYMENT in one step, so    *)
(* the callbacks that went past it are at most as many as the times the    *)
(* button was shown or the state was reverted to it, and the confirmation  *)
(* is delivered at most once for each button message.                      *)
(***************************************************************************)
C18_OnePassPerShownButton ==
    /\ Cardinality({h \in Handlers : PassedGuard(h)})
          <= Cardinality(buttons) + Cardinality({h \in Handlers : At(h, "unlock", "reverted")})
    /\ \A m \in buttons :
          Cardinality({h \in Handlers : At(h, "unlock", "complete") /\ handlers[h].msg = m}) <= 1

\* Two clicks on the one button: one was confirmed, the other turned away.
C18_Witness ==
    \E h, g \in Handlers :
        /\ At(h, "unlock", "complete")
        /\ At(g, "unlock", "rejected")
        /\ handlers[h].msg = handlers[g].msg
        /\ buttons = {EarlierRun}

(***************************************************************************)
(* C19: when a callback that went past the guard ends, by returning or by  *)
(* an exception, the flow state is FLOW_PAYMENT_COMPLETE or back at        *)
(* FLOW_PAYMENT_BUTTON_SHOWN, never FLOW_PROCESSING_PAYMENT.               *)
(***************************************************************************)
C19_EndsCompleteOrReverted ==
    [][\A h \in Handlers :
          Processing(h) /\ handlers'[h].pc \in Ended =>
              user_data'.state \in {FLOW_PAYMENT_COMPLETE, FLOW_PAYMENT_BUTTON_SHOWN}]_vars

(***************************************************************************)
(* C20: the flow state becomes FLOW_PAYMENT_COMPLETE only in a step taken  *)
(* from FLOW_PROCESSING_PAYMENT, so a running callback never overwrites    *)
(* the FLOW_ACTIVE_UNIFIED written by a /start that reset the flow.        *)
(***************************************************************************)
C20_CompleteOnlyFromProcessing ==
    [][user_data'.state = FLOW_PAYMENT_COMPLETE /\ user_data.state # FLOW_PAYMENT_COMPLETE =>
          user_data.state = FLOW_PROCESSING_PAYMENT]_vars

(***************************************************************************)
(* C21: whenever the flow state is FLOW_PAYMENT_BUTTON_SHOWN, user_data    *)
(* holds user_secure_id_formatted and the slot_id, access_key and          *)
(* z1_payment_message_id of one run, a run whose button message was        *)
(* delivered.                                                              *)
(***************************************************************************)
C21_ButtonShownHoldsIdsOfItsRun ==
    user_data.state = FLOW_PAYMENT_BUTTON_SHOWN =>
        /\ user_data.user_secure_id_formatted = "USR"
        /\ \E run \in buttons :
              /\ user_data.z1_payment_message_id = run
              /\ user_data.access_key = run
              /\ user_data.slot_id = run

(***************************************************************************)
(* Observations on the handler whose sends are recorded.                   *)
(***************************************************************************)
\* The handler begins: its update arrives and it runs to its first await.
Begins(h) == handlers[h].kind = "none" /\ handlers'[h].kind = "start"

\* The five keys of lines 62-63 are absent from ud.
FlowKeysAbsent(ud) == ud = PopFlowKeys(ud)

\* The step enters the Step A loop: the first script message is next.
EntersScript(h) ==
    /\ handlers'[h].pc = "step_a"
    /\ handlers[h].pc # "step_a"

(***************************************************************************)
(* C22: a /start handler takes the reset branch exactly when the text of  *)
(* its update is "/start" and the flow state is active, button shown or    *)
(* processing; in that branch it sends the reset notice and removes the    *)
(* five flow keys, in no other case does it remove a key; and whatever the *)
(* prior state, the state is FLOW_ACTIVE_UNIFIED when the handler turns to *)
(* its first script message.                                               *)
(***************************************************************************)
C22_ResetsExactlyWhenMidFlow ==
    [][\A h \in observed :
          /\ Begins(h) =>
                /\ handlers'[h].pc = "reset_reply"
                      <=> ShouldReset(handlers'[h].log[1], user_data.state)
                /\ handlers'[h].pc # "reset_reply" =>
                      /\ user_data' = [user_data EXCEPT !.user_id = "set",
                                          !.state = FLOW_ACTIVE_UNIFIED,
                                          !.user_secure_id_formatted = "USR"]
                      /\ EntersScript(h)
          /\ At(h, "start", "reset_reply") /\ Moves(h) =>
                /\ handlers'[h].log = handlers[h].log \o <<"RESET">>
                /\ ~handlers'[h].lost
                /\ FlowKeysAbsent([user_data' EXCEPT !.state = "unset",
                                                  !.user_secure_id_formatted = "unset"])
                /\ EntersScript(h)
          /\ EntersScript(h) => user_data'.state = FLOW_ACTIVE_UNIFIED ]_vars

\* The texts of a script, in its order.
TextsOf(s) == [k \in 1..Len(s) |-> s[k].text]

\* Every script message of Step A, Step B and Step C, in the order of the run.
ScriptTexts ==
    TextsOf(messages_step_a) \o TextsOf(messages_step_b) \o TextsOf(messages_step_c_pre_button)

\* The sends recorded for handler h after its update text and reset notice.
SendsOf(h) ==
    LET sends == Tail(handlers[h].log)
    IN  IF sends # <<>> /\ Head(sends) = "RESET" THEN Tail(sends) ELSE sends

(***************************************************************************)
(* C23: a step of the /start handler sets the flow state to                *)
(* FLOW_PAYMENT_BUTTON_SHOWN only when it ends the handler with the button *)
(* message delivered; that message is the last send of the run and comes   *)
(* after one attempt of every Step A, Step B and Step C message, in order. *)
(***************************************************************************)
C23_ButtonShownAfterWholeScript ==
    [][\A h \in observed :
          /\ /\ handlers'[h].kind = "start"
             /\ Moves(h)
             /\ user_data.state # FLOW_PAYMENT_BUTTON_SHOWN
             /\ user_data'.state = FLOW_PAYMENT_BUTTON_SHOWN
             => /\ handlers[h].pc = "pay_send"
                /\ handlers'[h].pc = "shown"
                /\ h \in buttons'
          /\ handlers'[h].pc = "shown" =>
                SendsOf(h)' = ScriptTexts \o <<"TIMER_008">> ]_vars

\* A run that showed the button after a reset notice, although one of its
\* script messages was attempted without being delivered.
C23_Witness ==
    \E h \in observed :
        /\ At(h, "start", "shown")
        /\ handlers[h].log[2] = "RESET"
        /\ handlers[h].lost
        /\ user_data.state = FLOW_PAYMENT_BUTTON_SHOWN
        /\ user_data.z1_payment_message_id = h

\* The positions of a /start run that goes on towards the button, and its end
\* with the button shown.
GoesOn ==
    {"step_a", "pause_a", "step_b", "pause_b", "step_c", "pay_action",
     "pay_sleep", "pay_send", "shown"}

(***************************************************************************)
(* C24 (as stated): whenever a /start run has shown the unlock button,     *)
(* every message it attempted before was delivered.                        *)
(***************************************************************************)
C24_ShownOnlyAfterFullDelivery ==
    \A h \in observed : At(h, "start", "shown") => ~handlers[h].lost

(***************************************************************************)
(* C24 (amended): a /start run that goes on after an undelivered message   *)
(* lost it in Step B or Step C, inside send_delayed_sequence; a failed     *)
(* reset notice or Step A message ends the run, so a run that shows the    *)
(* button delivered all of Step A.                                         *)
(***************************************************************************)
C24_OnlyStepBAndStepCLoseMessages ==
    [][\A h \in observed :
          /\ handlers'[h].kind = "start"
          /\ ~handlers[h].lost
          /\ handlers'[h].lost
          /\ handlers'[h].pc \in GoesOn
          => handlers[h].pc \in {"step_b", "step_c"} ]_vars

\* The button was shown by a run without reset notice that lost a message.
C24_Witness ==
    \E h \in observed :
        /\ At(h, "start", "shown")
        /\ handlers[h].lost
        /\ handlers[h].log[2] = "ALERT_001"
        /\ h \in buttons

(***************************************************************************)
(* C25: a Step A iteration of the /start handler that does not go on to    *)
(* the next iteration or to the pause after Step A (its presence signal or *)
(* its send raised) leaves user_data and the buttons as they are and goes  *)
(* to the error reply; the error reply is attempted once, whatever its     *)
(* outcome the handler then returns, and it sends and writes nothing more. *)
(***************************************************************************)
C25_StepAFailureEndsWithErrorReply ==
    [][\A h \in observed :
          /\ At(h, "start", "step_a") /\ Moves(h) =>
                \/ /\ handlers'[h].pc \in {"step_a", "pause_a"}
                   /\ ~handlers'[h].lost
                \/ /\ handlers'[h].pc = "error_reply"
                   /\ user_data' = user_data
                   /\ buttons' = buttons
          /\ At(h, "start", "error_reply") /\ Moves(h) =>
                /\ handlers'[h].pc = "failed"
                /\ handlers'[h].log = handlers[h].log \o <<"SYSTEM_ERROR">>
                /\ user_data' = user_data
                /\ buttons' = buttons
          /\ At(h, "start", "failed") => ~Moves(h) ]_vars

\* The send of the second Step A message of a first run raised: the run ended
\* after the error reply, in state FLOW_ACTIVE_UNIFIED and with no button.
C25_Witness ==
    \E h \in observed :
        /\ At(h, "start", "failed")
        /\ handlers[h].log = <<"/start", "ALERT_001", "SCAN_002", "SYSTEM_ERROR">>
        /\ user_data.state = FLOW_ACTIVE_UNIFIED
        /\ h \notin buttons

(***************************************************************************)
(* C26: a call of send_delayed_sequence with an empty sequence never       *)
(* sleeps, whatever its initial_delay.                                     *)
(***************************************************************************)
C26_EmptySequenceNeverSleeps ==
    \A c \in Calls :
        sequence[c] = <<>> =>
            /\ pc[c] # "initial_sleep"
            /\ \A k \in 1..Len(trace[c]) : trace[c][k].op # "sleep"

\* Handler h starts as a run of start_step_1_flow in this step.
BeginsStep1(h) == handlers[h].kind = "none" /\ handlers'[h].kind = "step_1"

\* None of the keys popped at lines 128-130 is removed in this step.
KeepsStepKeys ==
    /\ user_data.current_flow_step # "unset" => user_data'.current_flow_step # "unset"
    /\ user_data.entry_point_s2 # "unset" => user_data'.entry_point_s2 # "unset"
    /\ user_data.risk_score # "unset" => user_data'.risk_score # "unset"

(***************************************************************************)
(* C29: a step of start_step_1_flow makes current_flow_step                *)
(* AWAITING_STEP_1_BUTTON only when it ends the run with the keyboard      *)
(* message delivered; a step in which a presence signal or a send raised   *)
(* leaves current_flow_step as it is and goes to the system error reply,   *)
(* which is attempted once before the handler returns; no run ends with an *)
(* exception.                                                              *)
(***************************************************************************)
C29_AwaitingButtonOnlyAfterKeyboard ==
    [][\A h \in observed :
          handlers'[h].kind = "step_1" /\ Moves(h) =>
              /\ /\ user_data.current_flow_step # AWAITING_STEP_1_BUTTON
                 /\ user_data'.current_flow_step = AWAITING_STEP_1_BUTTON
                 => /\ handlers[h].pc = "send"
                    /\ handlers[h].i = Len(step_1_messages)
                    /\ handlers'[h].pc = "awaiting"
                    /\ h \in buttons'
              /\ handlers'[h].pc # "raised"
              /\ handlers'[h].pc = "error_reply" /\ ~BeginsStep1(h) =>
                    user_data'.current_flow_step = user_data.current_flow_step
              /\ handlers[h].pc = "error_reply" =>
                    /\ handlers'[h].pc = "failed"
                    /\ handlers'[h].log = handlers[h].log \o <<"SYSTEM_ERROR">>
                    /\ user_data' = user_data ]_vars

(***************************************************************************)
(* C30: a run of start_step_1_flow waits to send the inconsistency notice  *)
(* exactly when its text is '/start' and current_flow_step starts with     *)
(* 'AWAITING_STEP_2_FROM_'; its next step has sent the notice, removed     *)
(* current_flow_step, entry_point_s2 and risk_score and is at the first    *)
(* presence signal of step 1; no other step of the handler sends the       *)
(* notice or removes one of these keys.                                    *)
(***************************************************************************)
C30_RestartsExactlyWhenAwaitingStep2 ==
    [][\A h \in observed :
          /\ BeginsStep1(h) /\ handlers'[h].pc \in {"notice", "action"} =>
                /\ handlers'[h].pc = "notice" <=>
                      /\ handlers'[h].log = <<"/start">>
                      /\ StartsWithAwaitingStep2From(CurrentStep(user_data))
                /\ KeepsStepKeys
          /\ At(h, "step_1", "notice") /\ Moves(h) =>
                /\ handlers'[h].log = handlers[h].log \o <<"NOTICE">>
                /\ ~handlers'[h].lost
                /\ user_data' = PopStepKeys(user_data')
                /\ handlers'[h].pc = "action"
                /\ handlers'[h].i = 1
          /\ handlers[h].kind = "step_1" /\ handlers[h].pc # "notice" /\ Moves(h) =>
                /\ KeepsStepKeys
                /\ \A k \in 1..Len(handlers'[h].log) :
                      handlers'[h].log[k] = "NOTICE" => k <= Len(handlers[h].log) ]_vars

\* Handler h starts as a run of execute_step_2_scan_sequence in this step.
BeginsStep2(h) == handlers[h].kind = "none" /\ handlers'[h].kind = "step_2"

(***************************************************************************)
(* C27: a run of execute_step_2_scan_sequence that starts on a complete    *)
(* update while current_flow_step is STEP_2_SCAN_COMPLETE_AWAITING_S3      *)
(* leaves current_flow_step as it is and waits for its answer to the query *)
(* only; once the answer was attempted the run has ended, having sent      *)
(* nothing else and written nothing.                                       *)
(***************************************************************************)
C27_RepeatedTriggerIsIgnored ==
    [][\A h \in observed :
          /\ /\ BeginsStep2(h)
             /\ handlers'[h].log = <<"complete">>
             /\ user_data.current_flow_step = STEP_2_SCAN_COMPLETE_AWAITING_S3
             => /\ handlers'[h].pc = "reject_answer"
                /\ user_data'.current_flow_step = user_data.current_flow_step
                /\ buttons' = buttons
          /\ At(h, "step_2", "reject_answer") /\ Moves(h) =>
                /\ handlers'[h].pc = "rejected"
                /\ handlers'[h].log = <<"complete", "ANSWER">>
                /\ user_data' = user_data
                /\ buttons' = buttons
          /\ At(h, "step_2", "rejected") => ~Moves(h) ]_vars

\* The trigger was repeated after the scan was completed, and both repeats
\* ended after their answer.
C27_Witness ==
    /\ \A h \in Handlers : At(h, "step_2", "rejected")
    /\ \A h \in observed : handlers[h].log = <<"complete", "ANSWER">>
    /\ user_data.current_flow_step = STEP_2_SCAN_COMPLETE_AWAITING_S3
    /\ buttons = {EarlierRun}

\* No handler is running.
AllFinished ==
    \A h \in Handlers :
        handlers[h].pc \in {"idle", "rejected", "guided", "failed"}

(***************************************************************************)
(* C28: when execute_step_2_scan_sequence has finished and                 *)
(* current_flow_step is STEP_2_SCAN_COMPLETE_AWAITING_S3, a transition     *)
(* message with the button of step 3 was delivered to the user.            *)
(***************************************************************************)
C28_ScanCompleteHasStep3Button ==
    /\ AllFinished
    /\ user_data.current_flow_step = STEP_2_SCAN_COMPLETE_AWAITING_S3
    => buttons # {}

\* What the handler of the try block around the bot call of event e logs for
\* the result of e: "warning" (logger.warning), "error" (logger.error with
\* exc_info=True) or, when no except clause matches, nothing ("propagate").
LoggedAs(e) ==
    IF e.op = "chat_action" THEN ChatActionHandler(e.res) ELSE SendHandler(e.res)

\* The bot call of event e failed with a delivery error or another exception.
Failed(e) ==
    /\ e.op \in {"chat_action", "send"}
    /\ e.res \in {"TelegramError", "Exception"}

(***************************************************************************)
(* C31: every failed send of a call is logged, at warning severity when it *)
(* raised a TelegramError and at error severity with the stack otherwise;  *)
(* every failed presence signal is logged at warning severity.             *)
(***************************************************************************)
C31_FailuresAreLoggedBySeverity ==
    \A c \in Calls :
        \A k \in 1..Len(trace[c]) :
            LET e == trace[c][k]
            IN  Failed(e) =>
                    LoggedAs(e) = IF e.op = "send" /\ e.res = "Exception"
                                  THEN "error" ELSE "warning"

====
